---- MODULE Spec2Model ----
(***************************************************************************)
(* Model of single_joint_PD_design.py: the constrained PD gain synthesis   *)
(* design_pd_with_limits and the Streamlit script main() that renders it.  *)
(*                                                                         *)
(* Numbers.  The program computes with Python floats using only products,  *)
(* quotients, squares, square roots, comparisons and min.  Every value it  *)
(* can produce from rational inputs is therefore of the form               *)
(*      s * sqrt(n / d)     with s in {-1,0,1}, n, d naturals, d > 0,      *)
(* and the model computes with exactly these numbers: a value is the       *)
(* record [k, s, n, d] (k = "num"), kept in lowest terms, so that equality *)
(* of values is equality of records.  The arithmetic is the exact real     *)
(* arithmetic of the expressions in the source; IEEE rounding (differences *)
(* of a few units in the last place) is not represented.  float("inf") is  *)
(* the value Inf, None is the value None, and a division by zero yields    *)
(* the marker ZDE standing for a raised ZeroDivisionError.                 *)
(***************************************************************************)
EXTENDS Integers, Sequences, FiniteSets, TLC

\* J_input .. kd_max_input: the arguments of the call (main's widget values);
\* pc: "ready" before the call, "returned" after a direct call of
\* design_pd_with_limits, "rendered" after a run of main();
\* res: what design_pd_with_limits returned; page: what main() put on the page.
VARIABLES J_input, f_n_input, zeta_input, kp_max_input, kd_max_input, pc, res, page

inputs == <<J_input, f_n_input, zeta_input, kp_max_input, kd_max_input>>

vars == <<J_input, f_n_input, zeta_input, kp_max_input, kd_max_input, pc, res, page>>

----------------------------------------------------------------------------
(* Exact arithmetic on the numbers s * sqrt(n/d).                          *)

RECURSIVE GCD(_, _)
GCD(a, b) == IF b = 0 THEN a ELSE GCD(b, a % b)

RECURSIVE ISqrtFrom(_, _)
ISqrtFrom(x, r) == IF r * r >= x THEN r ELSE ISqrtFrom(x, r + 1)

\* the least r with r*r >= x
ISqrt(x) == ISqrtFrom(x, 0)

IsSquare(x) == ISqrt(x) * ISqrt(x) = x

Sign(i) == IF i > 0 THEN 1 ELSE IF i < 0 THEN -1 ELSE 0

Zero == [k |-> "num", s |-> 0, n |-> 0, d |-> 1]

\* float("inf")
Inf == [k |-> "inf", s |-> 1, n |-> 1, d |-> 0]

\* Python's None
None == [k |-> "None", s |-> 0, n |-> 0, d |-> 1]

\* a raised ZeroDivisionError
ZDE == [k |-> "ZeroDivisionError", s |-> 0, n |-> 0, d |-> 1]

\* a raised ValueError (math domain error)
DomainError == [k |-> "ValueError", s |-> 0, n |-> 0, d |-> 1]

\* inf * 0
NaN == [k |-> "nan", s |-> 0, n |-> 0, d |-> 1]

\* a value whose square root is no number s * sqrt(n/d)
Unrepresentable == [k |-> "unrepresentable", s |-> 0, n |-> 0, d |-> 1]

IsNum(a) == a.k = "num"

IsRaise(a) == a.k \in {"ZeroDivisionError", "ValueError"}

\* s * sqrt(n/d) in lowest terms
Surd(s, n, d) ==
    IF s = 0 \/ n = 0 THEN Zero
    ELSE LET g == GCD(n, d)
         IN  [k |-> "num", s |-> s, n |-> n \div g, d |-> d \div g]

\* the rational p/q, q > 0
R(p, q) == Surd(Sign(p), p * p, q * q)

\* the first operand that is not a number, for propagating a raised error
Bad(a, b) == IF ~IsNum(a) /\ a.k # "inf" THEN a ELSE b

Mul(a, b) ==
    IF IsNum(a) /\ IsNum(b)
    THEN IF a.s = 0 \/ b.s = 0 THEN Zero
         ELSE LET g1 == GCD(a.n, b.d)
                  g2 == GCD(b.n, a.d)
              IN  [k |-> "num", s |-> a.s * b.s,
                   n |-> (a.n \div g1) * (b.n \div g2),
                   d |-> (a.d \div g2) * (b.d \div g1)]
    ELSE IF a.k \in {"num", "inf"} /\ b.k \in {"num", "inf"}
    THEN IF a.s * b.s = 0 THEN NaN
         ELSE [k |-> "inf", s |-> a.s * b.s, n |-> 1, d |-> 0]
    ELSE Bad(a, b)

Div(a, b) ==
    IF IsNum(a) /\ IsNum(b)
    THEN IF b.s = 0 THEN ZDE
         ELSE Mul(a, [k |-> "num", s |-> b.s, n |-> b.d, d |-> b.n])
    ELSE IF a.k = "inf" /\ IsNum(b)
    THEN IF b.s = 0 THEN ZDE ELSE [k |-> "inf", s |-> a.s * b.s, n |-> 1, d |-> 0]
    ELSE IF IsNum(a) /\ b.k = "inf" THEN Zero
    ELSE Bad(a, b)

\* a ** 2
Sq(a) == Mul(a, a)

\* math.sqrt(a)
Sqrt(a) ==
    IF ~IsNum(a) THEN a
    ELSE IF a.s < 0 THEN DomainError
    ELSE IF a.s = 0 THEN Zero
    ELSE IF IsSquare(a.n) /\ IsSquare(a.d)
    THEN [k |-> "num", s |-> 1, n |-> ISqrt(a.n), d |-> ISqrt(a.d)]
    ELSE Unrepresentable

\* a < b on numbers and infinities
Lt(a, b) ==
    IF IsNum(a) /\ IsNum(b) THEN a.s * a.n * b.d < b.s * b.n * a.d
    ELSE IF IsNum(a) /\ b.k = "inf" THEN b.s > 0
    ELSE IF a.k = "inf" /\ IsNum(b) THEN a.s < 0
    ELSE IF a.k = "inf" /\ b.k = "inf" THEN a.s < b.s
    ELSE FALSE

Gt(a, b) == Lt(b, a)

Le(a, b) == a = b \/ Lt(a, b)

\* Python's min of a non-empty list: the first least element
RECURSIVE MinFrom(_, _, _)
MinFrom(lst, i, best) ==
    IF i > Len(lst) THEN best
    ELSE MinFrom(lst, i + 1, IF Lt(lst[i], best) THEN lst[i] ELSE best)

Min(lst) == MinFrom(lst, 2, lst[1])

----------------------------------------------------------------------------
(* Bounds of the input sets.                                               *)

MaxJ == 2

MaxFn == 3

MaxZeta == 3

MaxKp == 4

MaxKd == 4

\* math.pi at the precision of the model
PI == R(22, 7)

\* inertias -1, 0, 1 .. MaxJ
JVals == {R(i, 1) : i \in -1..MaxJ}

\* frequencies i/pi Hz, whose angular frequencies are 2*i rad/s, i = -1 .. MaxFn
FnVals == {Div(R(i, 1), PI) : i \in -1..MaxFn}

\* damping ratios -1/2, 0, 1/2 .. MaxZeta/2
ZetaVals == {R(i, 2) : i \in -1..MaxZeta}

\* Kp bounds: None, -4, 0, 4 .. 4*MaxKp
KpMaxVals == {None} \cup {R(4 * i, 1) : i \in -1..MaxKp}

\* Kd bounds: None, -1, 0, 1 .. MaxKd
KdMaxVals == {None} \cup {R(i, 1) : i \in -1..MaxKd}

----------------------------------------------------------------------------
(* design_pd_with_limits, statement by statement.                          *)

\* 1) omega_n_des = 2.0 * math.pi * f_n_des
omega_n_des(f) == Mul(Mul(R(2, 1), PI), f)

\* 2) kp_des = J * (omega_n_des ** 2)
kp_des(J, w) == Mul(J, Sq(w))

\*    kd_des = 2.0 * zeta_des * J * omega_n_des
kd_des(zeta, J, w) == Mul(Mul(Mul(R(2, 1), zeta), J), w)

\* seeded fault: the root taken before the division, sqrt(kp_max) / J
omega_n_limit_kp_RootFirst(kp, J) == Div(Sqrt(kp), J)

\* omega_n_limit_kp = math.sqrt(kp_max / J)
omega_n_limit_kp(kp, J) == Sqrt(Div(kp, J))

\* seeded fault: the factor 2.0 forgotten, kd_max / (zeta_des * J)
omega_n_limit_kd_NoTwo(kd, zeta, J) == Div(kd, Mul(zeta, J))

\* omega_n_limit_kd = kd_max / (2.0 * zeta_des * J)
omega_n_limit_kd(kd, zeta, J) == Div(kd, Mul(Mul(R(2, 1), zeta), J))

\* the entry the Kp bound appends to omega_n_limits (a raise marker is kept
\* in the list, so that the call is seen to raise)
KpLimit(kp, J) ==
    IF kp # None /\ Gt(kp, Zero)
    THEN LET lim == omega_n_limit_kp(kp, J)
         IN  IF Gt(lim, Zero) \/ IsRaise(lim) THEN <<lim>> ELSE <<>>
    ELSE <<>>

\* seeded fault: the test zeta_des > 0 forgotten
KdLimit_NoZetaGuard(kd, zeta, J) ==
    IF kd # None /\ Gt(kd, Zero)
    THEN LET lim == omega_n_limit_kd(kd, zeta, J)
         IN  IF Gt(lim, Zero) \/ IsRaise(lim) THEN <<lim>> ELSE <<>>
    ELSE <<>>

\* the entry the Kd bound appends to omega_n_limits
KdLimit(kd, zeta, J) ==
    IF kd # None /\ Gt(kd, Zero) /\ Gt(zeta, Zero)
    THEN LET lim == omega_n_limit_kd(kd, zeta, J)
         IN  IF Gt(lim, Zero) \/ IsRaise(lim) THEN <<lim>> ELSE <<>>
    ELSE <<>>

\* 3) the list omega_n_limits, seeded with omega_n_des
omega_n_limits(J, zeta, w, kp, kd) ==
    <<w>> \o KpLimit(kp, J) \o KdLimit(kd, zeta, J)

\* Python's max of a non-empty list
RECURSIVE MaxFrom(_, _, _)
MaxFrom(lst, i, best) ==
    IF i > Len(lst) THEN best
    ELSE MaxFrom(lst, i + 1, IF Lt(best, lst[i]) THEN lst[i] ELSE best)

\* seeded fault: max in place of min
omega_n_actual_Max(limits) == MaxFrom(limits, 2, limits[1])

\* omega_n_actual = min(omega_n_limits)
omega_n_actual(limits) == Min(limits)

\* seeded fault: the square forgotten, J * omega_n_actual
kp_actual_NoSquare(J, w) == Mul(J, w)

\* 4) kp_actual = J * (omega_n_actual ** 2)
kp_actual(J, w) == Mul(J, Sq(w))

\* seeded fault: the factor 2.0 forgotten, zeta_des * J * omega_n_actual
kd_actual_NoTwo(zeta, J, w) == Mul(Mul(zeta, J), w)

\*    kd_actual = 2.0 * zeta_des * J * omega_n_actual
kd_actual(zeta, J, w) == Mul(Mul(Mul(R(2, 1), zeta), J), w)

\* 5) f_n_actual = omega_n_actual / (2.0 * math.pi)
f_n_actual(w) == Div(w, Mul(R(2, 1), PI))

\* zeta_actual: 0.0 unless kp_actual > 0
zeta_actual(J, kp, kd) ==
    IF Gt(kp, Zero) THEN Div(kd, Mul(R(2, 1), Sqrt(Mul(J, kp)))) ELSE Zero

\* t_r_actual: inf unless omega_n_actual > 0
t_r_actual(w) == IF Gt(w, Zero) THEN Div(R(9, 5), w) ELSE Inf

\* seeded fault: the test zeta_actual > 0 forgotten
t_s_actual_NoZetaGuard(zeta, w) ==
    IF Gt(w, Zero) THEN Div(R(4, 1), Mul(zeta, w)) ELSE Inf

\* t_s_actual: inf unless omega_n_actual > 0 and zeta_actual > 0
t_s_actual(zeta, w) ==
    IF Gt(w, Zero) /\ Gt(zeta, Zero) THEN Div(R(4, 1), Mul(zeta, w)) ELSE Inf

\* the shape of what the call hands back: ret is "result" for a
\* PDDesignResult, "None" for None, "raise" for an exception (named by exc)
Outcome(ret, exc, wd, kpd, kdd, kpa, kda, wa, fa, za, tr, ts) ==
    [ret |-> ret, exc |-> exc,
     omega_n_des |-> wd, kp_des |-> kpd, kd_des |-> kdd,
     kp_actual |-> kpa, kd_actual |-> kda,
     omega_n_actual |-> wa, f_n_actual |-> fa, zeta_actual |-> za,
     t_r_actual |-> tr, t_s_actual |-> ts]

\* return None
ReturnNone ==
    Outcome("None", "", None, None, None, None, None, None, None, None, None, None)

\* an exception leaving the function
Raise(exc) ==
    Outcome("raise", exc, None, None, None, None, None, None, None, None, None, None)

\* no call made yet
NotCalled ==
    Outcome("", "", None, None, None, None, None, None, None, None, None, None)

\* the exception raised by the first of the values that is a raise marker
RECURSIVE FirstRaise(_, _)
FirstRaise(vals, i) ==
    IF i > Len(vals) THEN ""
    ELSE IF IsRaise(vals[i]) THEN vals[i].k
    ELSE FirstRaise(vals, i + 1)

\* seeded fault: J < 0 in place of J <= 0
InvalidJ_Strict(J) == Lt(J, Zero)

\* if J <= 0: return None
InvalidJ(J) == Le(J, Zero)

design_pd_with_limits(J, f, zeta, kp, kd) ==
    IF InvalidJ(J) THEN ReturnNone
    ELSE LET wd     == omega_n_des(f)
             kpd    == kp_des(J, wd)
             kdd    == kd_des(zeta, J, wd)
             limits == omega_n_limits(J, zeta, wd, kp, kd)
             wa     == omega_n_actual(limits)
             kpa    == kp_actual(J, wa)
             kda    == kd_actual(zeta, J, wa)
             fa     == f_n_actual(wa)
             za     == zeta_actual(J, kpa, kda)
             tr     == t_r_actual(wa)
             ts     == t_s_actual(za, wa)
             exc    == FirstRaise(limits \o <<fa, za, tr, ts>>, 1)
         IN  IF exc # "" THEN Raise(exc)
             ELSE Outcome("result", "", wd, kpd, kdd, kpa, kda, wa, fa, za, tr, ts)

----------------------------------------------------------------------------
(* main(): what one run of the Streamlit script puts on the page.          *)

\* seeded fault: and in place of or
is_limited_And(r) == Lt(r.kp_actual, r.kp_des) /\ Lt(r.kd_actual, r.kd_des)

\* is_limited = (res.kp_actual < res.kp_des) or (res.kd_actual < res.kd_des)
is_limited(r) == Lt(r.kp_actual, r.kp_des) \/ Lt(r.kd_actual, r.kd_des)

\* (1.8/res.omega_n_des)*1000
theory_t_r_ms(r) == Mul(Div(R(9, 5), r.omega_n_des), R(1000, 1))

\* (4.0/(res.zeta_des*res.omega_n_des))*1000
theory_t_s_ms(zeta, r) ==
    Mul(Div(R(4, 1), Mul(zeta, r.omega_n_des)), R(1000, 1))

\* what a run leaves on the page: shown (the `if res:` branch was entered and
\* the metrics drawn), limited, banner (st.warning / st.success), table
\* (st.table was reached), the four time cells of the table, and exc, the
\* exception that ended the run ("" when it ran to its end)
Page(shown, limited, banner, table, c1, c2, c3, c4, exc) ==
    [shown |-> shown, is_limited |-> limited, banner |-> banner, table |-> table,
     theory_t_r |-> c1, theory_t_s |-> c2, actual_t_r |-> c3, actual_t_s |-> c4,
     exc |-> exc]

BlankPage == Page(FALSE, FALSE, "", FALSE, None, None, None, None, "")

\* lines 184-263 of main(), given res (line 176) and zeta_input
Render(r, zeta) ==
    IF r.ret = "raise"
    THEN Page(FALSE, FALSE, "", FALSE, None, None, None, None, r.exc)
    ELSE IF r.ret = "None" THEN BlankPage
    ELSE LET lim == is_limited(r)
             ban == IF lim THEN "warning" ELSE "success"
             c1  == theory_t_r_ms(r)
             c2  == theory_t_s_ms(zeta, r)
             c3  == Mul(r.t_r_actual, R(1000, 1))
             c4  == Mul(r.t_s_actual, R(1000, 1))
             exc == FirstRaise(<<c1, c2, c3, c4>>, 1)
         IN  IF exc # ""
             THEN Page(TRUE, lim, ban, FALSE, None, None, None, None, exc)
             ELSE Page(TRUE, lim, ban, TRUE, c1, c2, c3, c4, "")

----------------------------------------------------------------------------
(* The state machine: a request is drawn, then either design_pd_with_limits *)
(* is called on it directly, or main() runs with it as the widget values.  *)

Init ==
    /\ J_input \in JVals
    /\ f_n_input \in FnVals
    /\ zeta_input \in ZetaVals
    /\ kp_max_input \in KpMaxVals
    /\ kd_max_input \in KdMaxVals
    /\ pc = "ready"
    /\ res = NotCalled
    /\ page = BlankPage

\* a direct call of design_pd_with_limits
Synthesize ==
    /\ pc = "ready"
    /\ res' = design_pd_with_limits(J_input, f_n_input, zeta_input,
                                    kp_max_input, kd_max_input)
    /\ pc' = "returned"
    /\ UNCHANGED <<inputs, page>>

\* a run of main(): st.number_input always hands back a number; res is
\* assigned by the call of line 176 and the page is drawn from it
main ==
    /\ pc = "ready"
    /\ kp_max_input # None
    /\ kd_max_input # None
    /\ res' = design_pd_with_limits(J_input, f_n_input, zeta_input,
                                    kp_max_input, kd_max_input)
    /\ page' = Render(res', zeta_input)
    /\ pc' = "rendered"
    /\ UNCHANGED inputs

Next == Synthesize \/ main

Spec == Init /\ [][Next]_vars

----------------------------------------------------------------------------
(* Sanity of the number representation.                                    *)

Fields(r) == {r.omega_n_des, r.kp_des, r.kd_des, r.kp_actual, r.kd_actual,
              r.omega_n_actual, r.f_n_actual, r.zeta_actual,
              r.t_r_actual, r.t_s_actual}

\* every value of a result is an exact number or inf, in lowest terms
NumbersExact ==
    res.ret = "result" =>
        \A v \in Fields(res) :
            /\ v.k \in {"num", "inf"}
            /\ v.k = "num" => (v.d > 0 /\ GCD(v.n, v.d) = 1 /\ (v.s = 0 <=> v.n = 0))

----------------------------------------------------------------------------
(* Vocabulary of the properties.                                           *)

\* the call has been made
Called == pc \in {"returned", "rendered"}

\* the call has been made on a request the function accepts (J > 0)
Accepted == Called /\ Gt(J_input, Zero)

\* a bound that is set and positive
Positive(b) == b # None /\ Gt(b, Zero)

NonNegative(a) == Le(Zero, a)

\* the Kp bound is active: kp_max > 0 and kp_des > kp_max
KpActive == Positive(kp_max_input) /\ Gt(res.kp_des, kp_max_input)

\* the Kd bound is active: kd_max > 0 and kd_des > kd_max
KdActive == Positive(kd_max_input) /\ Gt(res.kd_des, kd_max_input)

\* the achieved frequency is lower than the requested one
Clamped == Lt(res.omega_n_actual, res.omega_n_des)

----------------------------------------------------------------------------
(* C1: bound respect.                                                      *)

BoundsRespected ==
    /\ res.ret = "result"
    /\ Positive(kp_max_input) => Le(res.kp_actual, kp_max_input)
    /\ Positive(kd_max_input) => Le(res.kd_actual, kd_max_input)

\* C1 as stated: every accepted request, whatever f_n_des and zeta_des,
\* yields kp_actual <= kp_max and kd_actual <= kd_max for each positive bound.
C1_AnyFrequency == Accepted => BoundsRespected

\* C1, amended: every accepted request with f_n_des >= 0 (any zeta_des)
\* yields kp_actual <= kp_max whenever kp_max is set and > 0, and
\* kd_actual <= kd_max whenever kd_max is set and > 0.
C1_BoundRespect == (Accepted /\ NonNegative(f_n_input)) => BoundsRespected

\* both bounds were exceeded by the theoretical gains and have been enforced
C1_Witness ==
    /\ Accepted /\ NonNegative(f_n_input)
    /\ KpActive /\ KdActive
    /\ BoundsRespected

----------------------------------------------------------------------------
(* C2: damping preservation.                                               *)

\* C2: for every accepted request, whenever omega_n_actual > 0 the recomputed
\* zeta_actual equals zeta_des.
C2_DampingPreserved ==
    Accepted =>
        /\ res.ret = "result"
        /\ Gt(res.omega_n_actual, Zero) => res.zeta_actual = zeta_input

\* the Kp bound determined omega_n_actual, under a non-zero damping ratio
C2_Witness ==
    /\ Accepted /\ res.ret = "result"
    /\ Clamped /\ KpActive /\ ~KdActive
    /\ Gt(res.omega_n_actual, Zero)
    /\ Gt(zeta_input, Zero)
    /\ res.zeta_actual = zeta_input

----------------------------------------------------------------------------
(* C3: frequency monotonicity.                                             *)

\* C3 as stated: omega_n_actual <= omega_n_des, with equality iff neither
\* bound is active, for every accepted request.
C3_AnyFrequency ==
    Accepted =>
        /\ res.ret = "result"
        /\ Le(res.omega_n_actual, res.omega_n_des)
        /\ (res.omega_n_actual = res.omega_n_des) <=> (~KpActive /\ ~KdActive)

\* C3, amended: for every accepted request omega_n_actual <= omega_n_des;
\* and when f_n_des >= 0, omega_n_actual == omega_n_des iff neither bound is
\* active.
C3_FrequencyMonotone ==
    Accepted =>
        /\ res.ret = "result"
        /\ Le(res.omega_n_actual, res.omega_n_des)
        /\ NonNegative(f_n_input) =>
              ((res.omega_n_actual = res.omega_n_des) <=> (~KpActive /\ ~KdActive))

\* only the Kd bound is active, and the frequency was lowered
C3_Witness ==
    /\ Accepted /\ res.ret = "result"
    /\ NonNegative(f_n_input)
    /\ KdActive /\ ~KpActive /\ Positive(kp_max_input)
    /\ Clamped

----------------------------------------------------------------------------
(* C4: unconstrained pass-through.                                         *)

\* a bound that is absent, non-positive, or at least the theoretical gain
Slack(b, gain) == b = None \/ Le(b, Zero) \/ Le(gain, b)

----------------------------------------------------------------------------
(* C5: invalid input.                                                      *)

----------------------------------------------------------------------------
(* C6: time-metric sentinels.                                              *)

----------------------------------------------------------------------------
(* C7: zero damping.                                                       *)

\* min(omega_n_des, sqrt(kp_max / J) when kp_max > 0)
KpOnlyOmega ==
    IF Positive(kp_max_input)
    THEN Min(<<omega_n_des(f_n_input), Sqrt(Div(kp_max_input, J_input))>>)
    ELSE omega_n_des(f_n_input)

\* C7: with zeta_des == 0 the Kd bound does not restrict the result:
\* omega_n_actual is the minimum of omega_n_des and (when kp_max > 0)
\* sqrt(kp_max / J), kd_actual is 0, and the result is the one obtained with
\* kd_max absent.
C7_ZeroDamping ==
    (Accepted /\ zeta_input = Zero) =>
        /\ res.ret = "result"
        /\ res.omega_n_actual = KpOnlyOmega
        /\ res.kd_actual = Zero
        /\ res = design_pd_with_limits(J_input, f_n_input, zeta_input,
                                       kp_max_input, None)

\* zero damping under a positive Kd bound, the Kp bound lowering the frequency
C7_Witness ==
    /\ Accepted /\ res.ret = "result"
    /\ zeta_input = Zero
    /\ Positive(kd_max_input)
    /\ KpActive /\ Clamped
    /\ Gt(res.omega_n_actual, Zero)

----------------------------------------------------------------------------
(* C8: the is_limited flag.                                                *)

\* C8: for every result main() renders, is_limited is true iff
\* omega_n_actual < omega_n_des, and the banner follows the flag.
C8_IsLimited ==
    (pc = "rendered" /\ page.shown) =>
        /\ page.is_limited <=> Clamped
        /\ page.banner = (IF Clamped THEN "warning" ELSE "success")

\* a clamped result whose kd_actual equals kd_des (both 0): only Kp shows it
C8_Witness ==
    /\ pc = "rendered" /\ page.shown
    /\ page.is_limited /\ Clamped
    /\ res.kd_actual = res.kd_des
    /\ page.banner = "warning"

----------------------------------------------------------------------------
(* C9: the tightest constraint wins.                                       *)

\* both gains computed at bandwidth w respect their positive bounds
Admissible(w) ==
    /\ Positive(kp_max_input) =>
          Le(Mul(J_input, Sq(w)), kp_max_input)
    /\ Positive(kd_max_input) =>
          Le(Mul(Mul(Mul(R(2, 1), zeta_input), J_input), w), kd_max_input)

\* bandwidths probed for admissibility: a grid of step 1/2 rad/s over the
\* requested range, and the frequencies the bounds of the model allow
ProbeOmegas ==
    {R(i, 2) : i \in 0..(4 * MaxFn)}
        \cup {Sqrt(Div(kp, j)) : kp \in {R(4 * i, 1) : i \in 1..MaxKp},
                                  j \in {R(i, 1) : i \in 1..MaxJ}}

Maximal ==
    /\ res.ret = "result"
    /\ Le(res.omega_n_actual, res.omega_n_des)
    /\ Admissible(res.omega_n_actual)
    /\ \A w \in ProbeOmegas :
          (Lt(res.omega_n_actual, w) /\ Le(w, res.omega_n_des)) => ~Admissible(w)
    /\ Clamped =>
          \/ res.kp_actual = kp_max_input
          \/ res.kd_actual = kd_max_input

\* C9 as stated: for every accepted request omega_n_actual is the largest
\* bandwidth <= omega_n_des at which both gains respect their bounds.
C9_AnyFrequency == Accepted => Maximal

\* C9, amended: for every accepted request with f_n_des >= 0,
\* omega_n_actual is the largest bandwidth <= omega_n_des at which both gains
\* respect their positive bounds; when omega_n_actual < omega_n_des the
\* binding bound is met exactly and no bandwidth in
\* (omega_n_actual, omega_n_des] satisfies both bounds.
C9_TightestWins == (Accepted /\ NonNegative(f_n_input)) => Maximal

\* Scenario A's shape: kd_des > kd_max, kd_actual == kd_max, Kp below its bound
C9_Witness ==
    /\ Accepted /\ res.ret = "result"
    /\ NonNegative(f_n_input)
    /\ Clamped /\ KdActive
    /\ res.kd_actual = kd_max_input
    /\ Positive(kp_max_input) /\ Lt(res.kp_actual, kp_max_input)
    /\ \E w \in ProbeOmegas :
          Lt(res.omega_n_actual, w) /\ Le(w, res.omega_n_des)

----------------------------------------------------------------------------
(* C10: the rendering path.                                                *)

\* C10: whenever design_pd_with_limits returned a result, main() builds the
\* comparison table without an uncaught arithmetic exception.
C10_TableBuilt ==
    (pc = "rendered" /\ res.ret = "result") => (page.exc = "" /\ page.table)

====
